---------------------------- MODULE Spec2Model ----------------------------
(***************************************************************************)
(* A model of the two host bindings of the LanceDB client:                 *)
(*   - python/src/connection.rs : the pyo3 Connection handle, whose        *)
(*     operations return awaitables made by future_into_py;                *)
(*   - rust/ffi/node/src/lib.rs : the neon binding, whose operations       *)
(*     return promises settled through a neon Channel.                     *)
(* The native engine (the lancedb crate) is an external collaborator: it   *)
(* is modelled as a set of table names and the result of each operation.   *)
(***************************************************************************)
EXTENDS Naturals, Sequences, FiniteSets, TLC

\* ------------------------------------------------------------------ bounds
\* Host calls made in one behaviour.
MaxCalls == 3

\* ------------------------------------------------------------ value domains
\* Table names the host passes; NameOrder is the engine's listing order.
Names == {"t"}
NameOrder == <<"t">>

\* Mode strings the host passes to create_table / create_empty_table.
GoodModes == {"create", "overwrite", "exist_ok"}
ModeStrings == GoodModes \cup {"Create", "", "append"}

\* Option<T>::None of an argument or a field.
None == "<None>"

\* Error kinds of the error taxonomy, as the bindings raise them.
ClosedHandle == "ClosedHandle"            \* PyRuntimeError("Connection is closed")
InvalidArgument == "InvalidArgument"      \* PyValueError / "Invalid credentials configuration"
ConversionFailure == "ConversionFailure"  \* from_pyarrow failed
ExecutionFailure == "ExecutionFailure"    \* the engine's own error, via infer_error / or_throw
HostTypeError == "TypeError"              \* neon downcast_or_throw / argument::<JsString>
HostPanic == "Panic"                      \* a panic: thrown by neon, RustPanic from a pyo3 task
RuntimeFailure == "RuntimeFailure"        \* Runtime::new().or_throw(cx)

\* A result of a native operation, or the value an awaitable settles with.
Val(kind, names, id) == [kind |-> kind, names |-> names, id |-> id]
NoVal == Val("none", <<>>, 0)
Err(kind) == Val(kind, <<>>, 0)
IsErr(v) == v.kind \in {ExecutionFailure, ClosedHandle, InvalidArgument,
                        ConversionFailure, HostPanic}

VARIABLES
    tables,     \* the engine's database: the set of names of the tables in it
    inner,      \* Python: inner[h] is the field `inner` of Connection handle h
    pyTables,   \* Python: pyTables[k] is the native table Table handle k wraps
    pyTasks,    \* Python: the Rust futures handed to future_into_py
    pyFuts,     \* Python: the awaitables future_into_py returned to the host
    pyLast,     \* Python: the last host call and how it returned
    pyCalls,    \* Python: host calls made so far
    RUNTIME,    \* Node: the static OnceCell<Runtime>: 0 is empty, else the engine
    LOG,        \* Node: the static OnceCell<()>: whether it is set
    created,    \* Node: engines Runtime::new() has built so far
    logInits,   \* Node: calls of env_logger::init so far
    boxes,      \* Node: the JsBox<JsDatabase> objects of the host
    jsTasks,    \* Node: the tasks spawned on the runtime
    promises,   \* Node: the promises returned to the host; held: the host keeps it
    channel,    \* Node: the settlement closures sent to the host's event loop
    jsLast,     \* Node: the last host call and how it returned
    jsCalls     \* Node: host calls made so far

pyVars == <<inner, pyTables, pyTasks, pyFuts, pyLast, pyCalls>>
jsStatics == <<RUNTIME, LOG, created, logInits>>
jsHostVars == <<boxes, promises, jsLast, jsCalls>>
jsVars == <<RUNTIME, LOG, created, logInits, boxes, jsTasks, promises, channel,
            jsLast, jsCalls>>
vars == <<tables, pyVars, jsVars>>

\* ------------------------------------------------------------ native engine
\* The listing of the tables: in name order, after start_after, at most limit.
RECURSIVE ListFrom(_, _)
ListFrom(tbls, i) ==
    IF i > Len(NameOrder) THEN <<>>
    ELSE (IF NameOrder[i] \in tbls THEN <<NameOrder[i]>> ELSE <<>>)
         \o ListFrom(tbls, i + 1)

IndexOf(n) == CHOOSE i \in 1..Len(NameOrder) : NameOrder[i] = n

\* limit is an Option<u32>: <<>> is None, <<k>> is Some(k).
Take(s, limit) ==
    IF limit = <<>> \/ Len(s) <= limit[1] THEN s ELSE SubSeq(s, 1, limit[1])

NativeTableNames(tbls, start_after, limit) ==
    Take(ListFrom(tbls, IF start_after = None THEN 1 ELSE IndexOf(start_after) + 1),
         limit)

\* The engine's result and its tables after an operation that meets no I/O failure.
NativeResult(tbls, t) ==
    CASE t.op = "connect" -> Val("conn", <<>>, 0)
      [] t.op = "table_names" -> Val("names", NativeTableNames(tbls, t.sa, t.lim), 0)
      [] t.op \in {"create_table", "create_empty_table"} ->
            IF t.mode = "Create" /\ t.name \in tbls
            THEN Err(ExecutionFailure)
            ELSE Val("table", <<t.name>>, 0)
      [] t.op = "open_table" ->
            IF t.name \in tbls THEN Val("table", <<t.name>>, 0)
            ELSE Err(ExecutionFailure)
      [] t.op = "drop_table" ->
            IF t.name \in tbls THEN Val("unit", <<>>, 0) ELSE Err(ExecutionFailure)
      [] OTHER -> Val("unit", <<>>, 0)

NativeTables(tbls, t) ==
    CASE t.op \in {"create_table", "create_empty_table"} -> tbls \cup {t.name}
      [] t.op = "drop_table" -> tbls \ {t.name}
      [] t.op = "drop_db" -> {}
      [] OTHER -> tbls

\* ------------------------------------------------- Python: connection.rs
\* Connection::is_open
is_open(h) == inner[h] # None

\* get_inner without the liveness check: a closed handle passes.
get_inner_unchecked(h) == [ok |-> TRUE, conn |-> "db", err |-> "none"]

\* Connection::get_inner: the reference, or the error "Connection is closed".
get_inner(h) ==
    IF inner[h] # None THEN [ok |-> TRUE, conn |-> inner[h], err |-> "none"]
    ELSE [ok |-> FALSE, conn |-> None, err |-> ClosedHandle]

\* parse_create_mode_str falling back to Create on an unknown string.
parse_create_mode_str_default(mode) ==
    CASE mode = "overwrite" -> [ok |-> TRUE, mode |-> "Overwrite", err |-> "none"]
      [] mode = "exist_ok" -> [ok |-> TRUE, mode |-> "ExistOk", err |-> "none"]
      [] OTHER -> [ok |-> TRUE, mode |-> "Create", err |-> "none"]

\* parse_create_mode_str whose arm for "exist_ok" returns Create.
parse_create_mode_str_exist_ok_lost(mode) ==
    CASE mode = "create" -> [ok |-> TRUE, mode |-> "Create", err |-> "none"]
      [] mode = "overwrite" -> [ok |-> TRUE, mode |-> "Overwrite", err |-> "none"]
      [] mode = "exist_ok" -> [ok |-> TRUE, mode |-> "Create", err |-> "none"]
      [] OTHER -> [ok |-> FALSE, mode |-> None, err |-> InvalidArgument]

\* parse_create_mode_str matching the mode whatever its capitalisation.
parse_create_mode_str_nocase(mode) ==
    CASE mode \in {"create", "Create"} ->
            [ok |-> TRUE, mode |-> "Create", err |-> "none"]
      [] mode = "overwrite" -> [ok |-> TRUE, mode |-> "Overwrite", err |-> "none"]
      [] mode = "exist_ok" -> [ok |-> TRUE, mode |-> "ExistOk", err |-> "none"]
      [] OTHER -> [ok |-> FALSE, mode |-> None, err |-> InvalidArgument]

\* Connection::parse_create_mode_str
parse_create_mode_str(mode) ==
    CASE mode = "create" -> [ok |-> TRUE, mode |-> "Create", err |-> "none"]
      [] mode = "overwrite" -> [ok |-> TRUE, mode |-> "Overwrite", err |-> "none"]
      [] mode = "exist_ok" -> [ok |-> TRUE, mode |-> "ExistOk", err |-> "none"]
      [] OTHER -> [ok |-> FALSE, mode |-> None, err |-> InvalidArgument]

\* from_pyarrow on the data / schema argument.
from_pyarrow(payload) ==
    IF payload = "arrow" THEN [ok |-> TRUE, err |-> "none"]
    ELSE [ok |-> FALSE, err |-> ConversionFailure]

Payloads == {"arrow", "malformed"}

\* The read_consistency_interval argument of connect, an Option<f64> of
\* seconds: <<>> is None.
PyIntervalArgs == {<<>>, <<"5.0">>, <<"-1.0">>}

\* Duration::from_secs_f64, which panics on a negative number of seconds.
from_secs_f64(secs) ==
    IF secs = "-1.0" THEN [ok |-> FALSE, duration |-> <<>>]
    ELSE [ok |-> TRUE, duration |-> <<secs>>]

\* The optional arguments of connect, open_table and the create operations,
\* each an Option: <<>> is None, <<v>> is Some(v).
PyOpts(api_key, region, host_override, interval, storage_options, index_cache_size) ==
    [api_key |-> api_key, region |-> region, host_override |-> host_override,
     interval |-> interval, storage_options |-> storage_options,
     index_cache_size |-> index_cache_size]
NoOpts == PyOpts(<<>>, <<>>, <<>>, <<>>, <<>>, <<>>)

ApiKeyArgs == {<<>>, <<"sk_key">>}
PyRegionArgs == {<<>>, <<"us-east-1">>}
HostOverrideArgs == {<<>>, <<"http://host">>}
StorageOptionsArgs == {<<>>, <<"{timeout: 30s}">>}
IndexCacheSizeArgs == {<<>>, <<"256">>}

\* The builders of the engine as lancedb::connect(uri), inner.open_table(name)
\* and inner.create_table(name, ..) return them: every optional field unset,
\* the storage options empty.
EmptyOptions == "{}"
ConnectDefaults ==
    [api_key |-> <<>>, region |-> <<>>, host_override |-> <<>>,
     read_consistency_interval |-> <<>>, storage_options |-> EmptyOptions,
     aws_creds |-> <<>>]
OpenTableDefaults ==
    [storage_options |-> EmptyOptions, index_cache_size |-> <<>>,
     lance_read_params |-> <<>>]
CreateTableDefaults == [mode |-> "Create", storage_options |-> EmptyOptions]

\* connect: the builder its async block makes of the optional arguments.
connect_builder(o) ==
    LET b0 == ConnectDefaults
        b1 == IF o.api_key # <<>> THEN [b0 EXCEPT !.api_key = o.api_key] ELSE b0
        b2 == IF o.region # <<>> THEN [b1 EXCEPT !.region = o.region] ELSE b1
        b3 == IF o.host_override # <<>>
              THEN [b2 EXCEPT !.host_override = o.host_override] ELSE b2
        b4 == IF o.interval # <<>>
              THEN [b3 EXCEPT !.read_consistency_interval =
                                 from_secs_f64(o.interval[1]).duration]
              ELSE b3
    IN  IF o.storage_options # <<>>
        THEN [b4 EXCEPT !.storage_options = o.storage_options[1]] ELSE b4

\* open_table: the builder made of storage_options and index_cache_size.
open_table_builder(o) ==
    LET b0 == OpenTableDefaults
        b1 == IF o.storage_options # <<>>
              THEN [b0 EXCEPT !.storage_options = o.storage_options[1]] ELSE b0
    IN  IF o.index_cache_size # <<>>
        THEN [b1 EXCEPT !.index_cache_size = o.index_cache_size] ELSE b1

\* create_table, create_empty_table: the builder with the parsed mode and the
\* storage_options.
create_table_builder(mode, o) ==
    LET b0 == [CreateTableDefaults EXCEPT !.mode = mode] IN
    IF o.storage_options # <<>>
    THEN [b0 EXCEPT !.storage_options = o.storage_options[1]] ELSE b0

\* The request the Rust future of a connect, open or create call executes.
PyRequest(t) ==
    CASE t.op = "connect" -> connect_builder(t.opts)
      [] t.op = "open_table" -> open_table_builder(t.opts)
      [] OTHER -> create_table_builder(t.mode, t.opts)

\* The Rust future of a host call: what its async block captured (opts are the
\* optional arguments of the call), where it is, and its result.
PyTask(op, conn, name, mode, sa, lim) ==
    [op |-> op, conn |-> conn, name |-> name, mode |-> mode, sa |-> sa,
     lim |-> lim, opts |-> NoOpts, stage |-> "spawned", res |-> NoVal]

PyCallRec(op, h, open, mode, payload, outcome, fut) ==
    [op |-> op, h |-> h, open |-> open, mode |-> mode, payload |-> payload,
     outcome |-> outcome, fut |-> fut]

Handles == 1..Len(inner)

\* A process loads one binding: the Python module or the Node addon. A host
\* call of one is possible while none of the other was made.
PyMayCall == jsCalls = 0 /\ pyCalls < MaxCalls
JsMayCall == pyCalls = 0 /\ jsCalls < MaxCalls

\* A host call that hands its error to the host as an awaitable already
\* rejected with it, instead of raising it.
PyRaiseAsRejection(op, h, mode, payload, err) ==
    /\ pyTasks' = Append(pyTasks,
                         [PyTask(op, None, None, None, None, <<>>) EXCEPT
                             !.stage = "done", !.res = Err(err)])
    /\ pyFuts' = Append(pyFuts, [state |-> "rejected", value |-> Err(err),
                                 settles |-> 1])
    /\ pyLast' = PyCallRec(op, h, IF h = 0 THEN TRUE ELSE is_open(h), mode,
                           payload, "Awaitable", Len(pyFuts) + 1)
    /\ pyCalls' = pyCalls + 1
    /\ UNCHANGED <<tables, inner, pyTables, jsVars>>

\* The host call raised err: nothing is scheduled, no awaitable is made.
PyRaise(op, h, mode, payload, err) ==
    /\ pyLast' = PyCallRec(op, h, IF h = 0 THEN TRUE ELSE is_open(h), mode,
                           payload, err, 0)
    /\ pyCalls' = pyCalls + 1
    /\ UNCHANGED <<tables, inner, pyTables, pyTasks, pyFuts, jsVars>>

\* future_into_py: the Rust future is spawned and its awaitable returned.
future_into_py(op, h, mode, payload, task) ==
    /\ pyTasks' = Append(pyTasks, task)
    /\ pyFuts' = Append(pyFuts, [state |-> "pending", value |-> NoVal, settles |-> 0])
    /\ pyLast' = PyCallRec(op, h, IF h = 0 THEN TRUE ELSE is_open(h), mode,
                           payload, "Awaitable", Len(pyFuts) + 1)
    /\ pyCalls' = pyCalls + 1
    /\ UNCHANGED <<tables, inner, pyTables, jsVars>>

\* connect(uri, api_key, region, host_override, read_consistency_interval,
\* storage_options): the arguments are moved into the async block as they came;
\* nothing is looked at in the host call.
PyConnect(opts) ==
    /\ PyMayCall
    /\ future_into_py("connect", 0, None, None,
                      [PyTask("connect", None, None, None, None, <<>>)
                          EXCEPT !.opts = opts])

\* close that refuses a handle that is already closed.
PyCloseStrict(h) ==
    /\ PyMayCall
    /\ IF is_open(h)
       THEN /\ inner' = [inner EXCEPT ![h] = None]
            /\ pyLast' = PyCallRec("close", h, TRUE, None, None, "returned", 0)
            /\ pyCalls' = pyCalls + 1
            /\ UNCHANGED <<tables, pyTables, pyTasks, pyFuts, jsVars>>
       ELSE PyRaise("close", h, None, None, ClosedHandle)

\* A close that closes the native connection itself, and so takes it from the
\* tasks in flight that hold it too.
PyCloseShared(h) ==
    /\ PyMayCall
    /\ inner' = [inner EXCEPT ![h] = None]
    /\ pyTasks' = [i \in 1..Len(pyTasks) |->
                      IF pyTasks[i].stage = "spawned" /\ pyTasks[i].op # "connect"
                      THEN [pyTasks[i] EXCEPT !.conn = None] ELSE pyTasks[i]]
    /\ pyLast' = PyCallRec("close", h, is_open(h), None, None, "returned", 0)
    /\ pyCalls' = pyCalls + 1
    /\ UNCHANGED <<tables, pyTables, pyFuts, jsVars>>

\* A close that takes the native table out of every Table handle as well.
PyCloseWithTables(h) ==
    /\ PyMayCall
    /\ inner' = [inner EXCEPT ![h] = None]
    /\ pyTables' = [k \in 1..Len(pyTables) |-> None]
    /\ pyLast' = PyCallRec("close", h, is_open(h), None, None, "returned", 0)
    /\ pyCalls' = pyCalls + 1
    /\ UNCHANGED <<tables, pyTasks, pyFuts, jsVars>>

\* Connection::close
PyClose(h) ==
    /\ PyMayCall
    /\ inner' = [inner EXCEPT ![h] = None]
    /\ pyLast' = PyCallRec("close", h, is_open(h), None, None, "returned", 0)
    /\ pyCalls' = pyCalls + 1
    /\ UNCHANGED <<tables, pyTables, pyTasks, pyFuts, jsVars>>

\* Connection::table_names
PyTableNames(h, start_after, limit) ==
    /\ PyMayCall
    /\ LET g == get_inner(h) IN
       IF ~g.ok THEN PyRaise("table_names", h, None, None, g.err)
       ELSE future_into_py("table_names", h, None, None,
                PyTask("table_names", g.conn, None, None, start_after, limit))

\* A create operation that parses the mode and converts the payload before it
\* asks for the connection.
PyCreateModeFirst(op, h, name, mode, payload, storage_options) ==
    /\ PyMayCall
    /\ LET g == get_inner(h)
           m == parse_create_mode_str(mode)
           p == from_pyarrow(payload)
       IN  IF ~m.ok THEN PyRaise(op, h, mode, payload, m.err)
           ELSE IF ~p.ok THEN PyRaise(op, h, mode, payload, p.err)
           ELSE IF ~g.ok THEN PyRaise(op, h, mode, payload, g.err)
           ELSE future_into_py(op, h, mode, payload,
                    [PyTask(op, g.conn, name, m.mode, None, <<>>) EXCEPT
                        !.opts.storage_options = storage_options])

\* Connection::create_table and Connection::create_empty_table
PyCreate(op, h, name, mode, payload, storage_options) ==
    /\ PyMayCall
    /\ LET g == get_inner(h)
           m == parse_create_mode_str(mode)
           p == from_pyarrow(payload)
       IN  IF ~g.ok THEN PyRaise(op, h, mode, payload, g.err)
           ELSE IF ~m.ok THEN PyRaise(op, h, mode, payload, m.err)
           ELSE IF ~p.ok THEN PyRaise(op, h, mode, payload, p.err)
           ELSE future_into_py(op, h, mode, payload,
                    [PyTask(op, g.conn, name, m.mode, None, <<>>) EXCEPT
                        !.opts.storage_options = storage_options])

PyCreateTable(h, name, mode, payload, storage_options) ==
    PyCreate("create_table", h, name, mode, payload, storage_options)

PyCreateEmptyTable(h, name, mode, payload, storage_options) ==
    PyCreate("create_empty_table", h, name, mode, payload, storage_options)

\* Connection::open_table, Connection::drop_table
PyNamed(op, h, name, opts) ==
    /\ PyMayCall
    /\ LET g == get_inner(h) IN
       IF ~g.ok THEN PyRaise(op, h, None, None, g.err)
       ELSE future_into_py(op, h, None, None,
                [PyTask(op, g.conn, name, None, None, <<>>) EXCEPT
                    !.opts = opts])

PyOpenTable(h, name, storage_options, index_cache_size) ==
    PyNamed("open_table", h, name,
            PyOpts(<<>>, <<>>, <<>>, <<>>, storage_options, index_cache_size))

PyDropTable(h, name) == PyNamed("drop_table", h, name, NoOpts)

\* Connection::drop_db
PyDropDb(h) ==
    /\ PyMayCall
    /\ LET g == get_inner(h) IN
       IF ~g.ok THEN PyRaise("drop_db", h, None, None, g.err)
       ELSE future_into_py("drop_db", h, None, None,
                PyTask("drop_db", g.conn, None, None, None, <<>>))

\* A Rust future that has run: execute() consumed the request it had captured,
\* and what is left is the result.
PyFinished(t, r) ==
    [PyTask(t.op, None, None, None, None, <<>>) EXCEPT
        !.stage = "finished", !.res = r]

\* A worker of the engine runs the Rust future of task i: connect builds its
\* request first, where from_secs_f64 may panic; then the native operation
\* executes (or meets an I/O failure) and infer_error translates its error.
PyRun(i, ioFail) ==
    /\ pyTasks[i].stage = "spawned"
    /\ LET t == pyTasks[i]
           panics == /\ t.op = "connect"
                     /\ t.opts.interval # <<>>
                     /\ ~from_secs_f64(t.opts.interval[1]).ok
           r == IF panics THEN Err(HostPanic)
                ELSE IF ioFail THEN Err(ExecutionFailure)
                ELSE NativeResult(tables, t)
       IN  /\ pyTasks' = [pyTasks EXCEPT ![i] = PyFinished(t, r)]
           /\ tables' = IF IsErr(r) THEN tables ELSE NativeTables(tables, t)
    /\ UNCHANGED <<inner, pyTables, pyFuts, pyLast, pyCalls, jsVars>>

\* The value the host sees for a finished task: Connection::new / Table::new
\* wrap the native result in a new handle, an error stays the error.
PyHostValue(r) ==
    CASE r.kind = "conn" -> Val("conn", <<>>, Len(inner) + 1)
      [] r.kind = "table" -> Val("table", r.names, Len(pyTables) + 1)
      [] OTHER -> r

\* The host cancels the pending awaitable i (fut.cancel(), or the cancellation
\* of the coroutine awaiting it): the done callback future_into_py added to it
\* signals the Rust future.
PyCancel(i) ==
    /\ pyFuts[i].state = "pending"
    /\ pyFuts' = [pyFuts EXCEPT ![i].state = "cancelled"]
    /\ UNCHANGED <<tables, inner, pyTables, pyTasks, pyLast, pyCalls, jsVars>>

\* future_into_py polls the Rust future of a cancelled awaitable no further
\* and drops it: the native operation it had not run is never run.
PyDropFuture(i) ==
    /\ pyTasks[i].stage = "spawned"
    /\ pyFuts[i].state = "cancelled"
    /\ pyTasks' = [pyTasks EXCEPT
                      ![i] = [PyFinished(pyTasks[i], NoVal) EXCEPT
                                 !.stage = "cancelled"]]
    /\ UNCHANGED <<tables, inner, pyTables, pyFuts, pyLast, pyCalls, jsVars>>

\* A Table handle is usable while it holds its native table.
TableUsable(k) == pyTables[k] # None

\* A settlement that hands the new connection to the first handle there is,
\* instead of making a handle of its own.
PySettleReuse(i) ==
    /\ pyTasks[i].stage = "finished"
    /\ LET r == pyTasks[i].res IN
       /\ pyFuts' = [pyFuts EXCEPT ![i] =
                        [state |-> IF IsErr(r) THEN "rejected" ELSE "resolved",
                         value |-> PyHostValue(r),
                         settles |-> @.settles + 1]]
       /\ inner' = IF r.kind # "conn" THEN inner
                   ELSE IF inner = <<>> THEN <<"db">>
                   ELSE [inner EXCEPT ![1] = "db"]
       /\ pyTables' = IF r.kind = "table" THEN Append(pyTables, r.names[1])
                      ELSE pyTables
    /\ pyTasks' = [pyTasks EXCEPT ![i].stage = "done"]
    /\ UNCHANGED <<tables, pyLast, pyCalls, jsVars>>

\* The event loop of the host sets the result of awaitable i; the result of
\* an awaitable that was cancelled is dropped instead.
PySettle(i) ==
    /\ pyTasks[i].stage = "finished"
    /\ LET r == pyTasks[i].res IN
       IF pyFuts[i].state = "cancelled"
       THEN UNCHANGED <<pyFuts, inner, pyTables>>
       ELSE
       /\ pyFuts' = [pyFuts EXCEPT ![i] =
                        [state |-> IF IsErr(r) THEN "rejected" ELSE "resolved",
                         value |-> PyHostValue(r),
                         settles |-> @.settles + 1]]
       /\ inner' = IF r.kind = "conn" THEN Append(inner, "db") ELSE inner
       /\ pyTables' = IF r.kind = "table" THEN Append(pyTables, r.names[1])
                      ELSE pyTables
    /\ pyTasks' = [pyTasks EXCEPT ![i].stage = "done"]
    /\ UNCHANGED <<tables, pyLast, pyCalls, jsVars>>

\* ------------------------------------------------- Node: ffi/node/src/lib.rs
\* A host argument: a string, or anything that is not one (not passed,
\* undefined, null, a number), which is_a::<JsString> treats alike.
Undefined == [t |-> "undefined", v |-> ""]
Str(s) == [t |-> "string", v |-> s]
\* A JsNumber argument of so many seconds, negative when neg.
Num(secs, neg) == [t |-> IF neg THEN "negative" ELSE "number", v |-> secs]

\* cx.argument_opt(i).filter(is_a::<JsString>)...map(value): an Option<String>,
\* <<>> for None and <<s>> for Some(s).
opt_string(arg) == IF arg.t = "string" THEN <<arg.v>> ELSE <<>>

\* get_aws_creds that takes a key id without a secret for no credential.
get_aws_creds_lenient(key, secret, token) ==
    LET secret_key_id == opt_string(key)
        secret_key == opt_string(secret)
        temp_token == opt_string(token)
    IN  IF secret_key_id # <<>> /\ secret_key # <<>>
        THEN [ok |-> TRUE, err |-> "none",
              creds |-> <<[key_id |-> secret_key_id[1],
                           secret_key |-> secret_key[1],
                           token |-> temp_token]>>]
        ELSE IF secret_key = <<>> /\ temp_token = <<>>
        THEN [ok |-> TRUE, err |-> "none", creds |-> <<>>]
        ELSE [ok |-> FALSE, err |-> InvalidArgument, creds |-> <<>>]

\* get_aws_creds whose last pattern before the error is (None, None, _).
get_aws_creds_any_token(key, secret, token) ==
    LET secret_key_id == opt_string(key)
        secret_key == opt_string(secret)
        temp_token == opt_string(token)
    IN  IF secret_key_id # <<>> /\ secret_key # <<>>
        THEN [ok |-> TRUE, err |-> "none",
              creds |-> <<[key_id |-> secret_key_id[1],
                           secret_key |-> secret_key[1],
                           token |-> temp_token]>>]
        ELSE IF secret_key_id = <<>> /\ secret_key = <<>>
        THEN [ok |-> TRUE, err |-> "none", creds |-> <<>>]
        ELSE [ok |-> FALSE, err |-> InvalidArgument, creds |-> <<>>]

\* get_aws_creds: Ok(Some(credential)), Ok(None) or the thrown error.
get_aws_creds(key, secret, token) ==
    LET secret_key_id == opt_string(key)
        secret_key == opt_string(secret)
        temp_token == opt_string(token)
    IN  IF secret_key_id # <<>> /\ secret_key # <<>>
        THEN [ok |-> TRUE, err |-> "none",
              creds |-> <<[key_id |-> secret_key_id[1],
                           secret_key |-> secret_key[1],
                           token |-> temp_token]>>]
        ELSE IF secret_key_id = <<>> /\ secret_key = <<>> /\ temp_token = <<>>
        THEN [ok |-> TRUE, err |-> "none", creds |-> <<>>]
        ELSE [ok |-> FALSE, err |-> InvalidArgument, creds |-> <<>>]

\* get_aws_region
get_aws_region(region) == opt_string(region)

\* argument_opt(5).and_then(downcast::<JsNumber>.ok()).map(value)
\*    .map(Duration::from_secs_f64): None, the duration, or the panic of
\* from_secs_f64 on a negative number, which neon throws to the host.
get_interval(arg) ==
    CASE arg.t = "number" -> [ok |-> TRUE, interval |-> <<arg.v>>]
      [] arg.t = "negative" -> [ok |-> FALSE, interval |-> <<>>]
      [] OTHER -> [ok |-> TRUE, interval |-> <<>>]

\* runtime(cx) without the OnceCell: every call builds an engine of its own.
runtime_fresh(newOk) ==
    LET inits == IF LOG THEN logInits ELSE logInits + 1 IN
    [ok |-> TRUE, rt |-> created + 1, cell |-> created + 1,
     created |-> created + 1, inits |-> inits]

\* runtime(cx) that calls env_logger::init itself instead of going through the
\* LOG cell.
runtime_log_each_call(newOk) ==
    LET inits == logInits + 1 IN
    IF RUNTIME # 0
    THEN [ok |-> TRUE, rt |-> RUNTIME, cell |-> RUNTIME, created |-> created,
          inits |-> inits]
    ELSE IF newOk
    THEN [ok |-> TRUE, rt |-> created + 1, cell |-> created + 1,
          created |-> created + 1, inits |-> inits]
    ELSE [ok |-> FALSE, rt |-> 0, cell |-> 0, created |-> created, inits |-> inits]

\* runtime(cx) whose cell keeps the outcome of the first Runtime::new(): after
\* a failure every later caller is given that failure, without a retry.
runtime_sticky_failure(newOk) ==
    LET inits == IF LOG THEN logInits ELSE logInits + 1 IN
    IF RUNTIME # 0
    THEN [ok |-> TRUE, rt |-> RUNTIME, cell |-> RUNTIME, created |-> created,
          inits |-> inits]
    ELSE IF newOk /\ ~LOG
    THEN [ok |-> TRUE, rt |-> created + 1, cell |-> created + 1,
          created |-> created + 1, inits |-> inits]
    ELSE [ok |-> FALSE, rt |-> 0, cell |-> 0, created |-> created, inits |-> inits]

\* runtime(cx): LOG is initialised once; RUNTIME is built on first use, and a
\* failed Runtime::new() leaves the cell empty and throws. newOk is whether
\* Runtime::new() would succeed.
runtime(newOk) ==
    LET inits == IF LOG THEN logInits ELSE logInits + 1 IN
    IF RUNTIME # 0
    THEN [ok |-> TRUE, rt |-> RUNTIME, cell |-> RUNTIME, created |-> created,
          inits |-> inits]
    ELSE IF newOk
    THEN [ok |-> TRUE, rt |-> created + 1, cell |-> created + 1,
          created |-> created + 1, inits |-> inits]
    ELSE [ok |-> FALSE, rt |-> 0, cell |-> 0, created |-> created, inits |-> inits]

\* database_new: conn_builder, connect(&path) with region, credential and
\* read-consistency interval each set when it is Some.
conn_builder(region, aws_creds, interval) ==
    LET b0 == ConnectDefaults
        b1 == IF region # <<>> THEN [b0 EXCEPT !.region = region] ELSE b0
        b2 == IF aws_creds # <<>> THEN [b1 EXCEPT !.aws_creds = aws_creds] ELSE b1
    IN  IF interval # <<>>
        THEN [b2 EXCEPT !.read_consistency_interval = interval] ELSE b2

\* ObjectStoreParams::with_aws_credentials(aws_creds, aws_region)
with_aws_credentials(aws_creds, aws_region) ==
    [aws_credentials |-> aws_creds, region |-> aws_region]

\* ReadParams::default(): no object-store options.
ReadParamsDefault == [store_options |-> <<>>]

\* database_open_table: params, ReadParams::default() with store_options set.
read_params(aws_creds, aws_region) ==
    [ReadParamsDefault EXCEPT
        !.store_options = <<with_aws_credentials(aws_creds, aws_region)>>]

\* The request the task of a connect or open_table call executes:
\* conn_builder, or database.open_table(name).lance_read_params(params).
JsRequest(t) ==
    IF t.op = "connect" THEN conn_builder(t.region, t.creds, t.interval)
    ELSE [OpenTableDefaults EXCEPT
             !.lance_read_params = <<read_params(t.creds, t.region)>>]

JsTask(op, name, creds, region, interval, rt) ==
    [op |-> op, name |-> name, mode |-> None, sa |-> None, lim |-> <<>>,
     creds |-> creds, region |-> region, interval |-> interval, rt |-> rt,
     stage |-> "spawned", res |-> NoVal]

\* The record of a host call: key, secret and token are the Option<String> the
\* call read from its credential arguments; first is whether the call was the
\* first of the process to enter runtime(cx) and attempt what became of the
\* Runtime::new() it made there, if any; JsDispatch sets both.
JsCallRec(op, this, key, secret, token, outcome, creds, rt, promise) ==
    [op |-> op, this |-> this, key |-> opt_string(key),
     secret |-> opt_string(secret), token |-> opt_string(token),
     outcome |-> outcome, creds |-> creds, rt |-> rt, promise |-> promise,
     first |-> FALSE, attempt |-> "none"]

\* The host call threw before runtime(cx) was reached.
JsThrow(op, this, key, secret, token, err) ==
    /\ jsLast' = JsCallRec(op, this, key, secret, token, err, <<>>, 0, 0)
    /\ jsCalls' = jsCalls + 1
    /\ UNCHANGED <<tables, pyVars, jsStatics, boxes, jsTasks, promises, channel>>

\* runtime(cx)?, cx.promise(), rt.spawn(task), Ok(promise).
JsDispatch(op, this, key, secret, token, name, creds, region, interval, newOk) ==
    LET r == runtime(newOk)
        attempt == IF RUNTIME # 0 THEN "none"
                   ELSE IF newOk THEN "built" ELSE "failed"
    IN
    /\ LOG' = TRUE
    /\ logInits' = r.inits
    /\ RUNTIME' = r.cell
    /\ created' = r.created
    /\ jsCalls' = jsCalls + 1
    /\ IF r.ok
       THEN /\ jsTasks' = Append(jsTasks,
                               JsTask(op, name, creds, region, interval, r.rt))
            /\ promises' = Append(promises,
                              [state |-> "pending", value |-> NoVal, settles |-> 0,
                               held |-> TRUE])
            /\ jsLast' = [JsCallRec(op, this, key, secret, token, "Promise",
                                    creds, r.rt, Len(promises) + 1)
                             EXCEPT !.first = ~LOG, !.attempt = attempt]
       ELSE /\ jsLast' = [JsCallRec(op, this, key, secret, token, RuntimeFailure,
                                    <<>>, 0, 0)
                             EXCEPT !.first = ~LOG, !.attempt = attempt]
            /\ UNCHANGED <<jsTasks, promises>>
    /\ UNCHANGED <<tables, pyVars, boxes, channel>>

KeyArgs == {Undefined, Str("AK")}
SecretArgs == {Undefined, Str("SK")}
TokenArgs == {Undefined, Str("TK")}
RegionArgs == {Undefined, Str("us-east-1")}
PathArgs == {Undefined, Str("mem://db")}
IntervalArgs == {Undefined, Num("5", FALSE), Num("1", TRUE)}
NameArgs == {Undefined} \cup {Str(n) : n \in Names}
\* Whether Runtime::new() succeeds matters only while RUNTIME is empty.
NewOks == IF RUNTIME = 0 THEN BOOLEAN ELSE {TRUE}

\* database_new
JsDatabaseNew(path, key, secret, token, region, interval, newOk) ==
    /\ JsMayCall
    /\ LET c == get_aws_creds(key, secret, token)
           d == get_interval(interval)
       IN
       IF path.t # "string"
       THEN JsThrow("connect", 0, Undefined, Undefined, Undefined,
                    HostTypeError)
       ELSE IF ~c.ok
       THEN JsThrow("connect", 0, key, secret, token, c.err)
       ELSE IF ~d.ok
       THEN JsThrow("connect", 0, key, secret, token, HostPanic)
       ELSE JsDispatch("connect", 0, key, secret, token, None, c.creds,
                       get_aws_region(region), d.interval, newOk)

\* database_table_names; this = 0 stands for a `this` that is no JsBox<JsDatabase>.
JsTableNames(this, newOk) ==
    /\ JsMayCall
    /\ IF this = 0
       THEN JsThrow("table_names", this, Undefined, Undefined, Undefined,
                    HostTypeError)
       ELSE JsDispatch("table_names", this, Undefined, Undefined, Undefined, None,
                       <<>>, <<>>, <<>>, newOk)

\* database_open_table
JsOpenTable(this, name, key, secret, token, region, newOk) ==
    /\ JsMayCall
    /\ LET c == get_aws_creds(key, secret, token) IN
       IF this = 0 \/ name.t # "string"
       THEN JsThrow("open_table", this, Undefined, Undefined, Undefined,
                    HostTypeError)
       ELSE IF ~c.ok
       THEN JsThrow("open_table", this, key, secret, token, c.err)
       ELSE JsDispatch("open_table", this, key, secret, token, name.v, c.creds,
                       get_aws_region(region), <<>>, newOk)

\* database_drop_table
JsDropTable(this, name, newOk) ==
    /\ JsMayCall
    /\ IF this = 0 \/ name.t # "string"
       THEN JsThrow("drop_table", this, Undefined, Undefined, Undefined,
                    HostTypeError)
       ELSE JsDispatch("drop_table", this, Undefined, Undefined, Undefined, name.v,
                       <<>>, <<>>, <<>>, newOk)

\* A task that has run: execute() consumed the request it had captured, and
\* what is left is the result, moved into the settlement closure.
JsSent(t, r) ==
    [JsTask(t.op, None, <<>>, <<>>, <<>>, t.rt) EXCEPT
        !.stage = "sent", !.res = r]

\* A worker that settles the promise itself instead of sending the closure.
JsRunDirect(i, ioFail) ==
    /\ jsTasks[i].stage = "spawned"
    /\ LET t == jsTasks[i]
           r == IF ioFail THEN Err(ExecutionFailure) ELSE NativeResult(tables, t)
       IN  /\ jsTasks' = [jsTasks EXCEPT ![i] = [JsSent(t, r) EXCEPT !.stage = "done"]]
           /\ tables' = IF IsErr(r) THEN tables ELSE NativeTables(tables, t)
           /\ promises' = [promises EXCEPT ![i] =
                              [state |-> IF IsErr(r) THEN "rejected" ELSE "resolved",
                               value |-> IF r.kind = "conn"
                                         THEN Val("db", <<>>, Len(boxes) + 1) ELSE r,
                               settles |-> @.settles + 1, held |-> @.held]]
           /\ boxes' = IF r.kind = "conn" THEN Append(boxes, "db") ELSE boxes
    /\ UNCHANGED <<pyVars, jsStatics, channel, jsLast, jsCalls>>

\* A worker of the runtime runs task i: the native operation executes (or meets
\* an I/O failure), then deferred.settle_with sends the settlement closure, which
\* owns the result, to the host's event loop through the channel.
JsRun(i, ioFail) ==
    /\ jsTasks[i].stage = "spawned"
    /\ LET t == jsTasks[i]
           r == IF ioFail THEN Err(ExecutionFailure) ELSE NativeResult(tables, t)
       IN  /\ jsTasks' = [jsTasks EXCEPT ![i] = JsSent(t, r)]
           /\ tables' = IF IsErr(r) THEN tables ELSE NativeTables(tables, t)
           /\ channel' = Append(channel, [id |-> i, res |-> r])
    /\ UNCHANGED <<pyVars, jsStatics, jsHostVars>>

\* The value the settlement closure builds on the host: or_throw rejects with
\* the error; otherwise the database is boxed, the names become an array, the
\* table is boxed, or null is returned.
JsHostValue(r) ==
    IF r.kind = "conn" THEN Val("db", <<>>, Len(boxes) + 1) ELSE r

\* The settlement closure as JsSettle runs it, on promise p.
JsSettleOn(p, m) ==
    /\ promises' = [promises EXCEPT ![p] =
                       [state |-> IF IsErr(m.res) THEN "rejected" ELSE "resolved",
                        value |-> JsHostValue(m.res),
                        settles |-> @.settles + 1, held |-> @.held]]
    /\ boxes' = IF m.res.kind = "conn" THEN Append(boxes, "db") ELSE boxes
    /\ jsTasks' = [jsTasks EXCEPT ![m.id].stage = "done"]

\* A settlement that leaves its closure in the channel.
JsSettleNoPop ==
    /\ channel # <<>>
    /\ JsSettleOn(Head(channel).id, Head(channel))
    /\ UNCHANGED <<tables, pyVars, jsStatics, jsLast, jsCalls, channel>>

\* A settlement that settles the promise made last, not the closure's own.
JsSettleLatest ==
    /\ channel # <<>>
    /\ JsSettleOn(Len(promises), Head(channel))
    /\ channel' = Tail(channel)
    /\ UNCHANGED <<tables, pyVars, jsStatics, jsLast, jsCalls>>

\* The host's event loop runs the next settlement closure of the channel.
JsSettle ==
    /\ channel # <<>>
    /\ JsSettleOn(Head(channel).id, Head(channel))
    /\ channel' = Tail(channel)
    /\ UNCHANGED <<tables, pyVars, jsStatics, jsLast, jsCalls>>

\* A drop of the pending promise i that aborts its task when it has not run.
JsAbandonAborts(i) ==
    /\ promises[i].state = "pending"
    /\ promises[i].held
    /\ promises' = [promises EXCEPT ![i].held = FALSE]
    /\ jsTasks' = [jsTasks EXCEPT
                      ![i].stage = IF @ = "spawned" THEN "cancelled" ELSE @]
    /\ UNCHANGED <<tables, pyVars, jsStatics, boxes, channel, jsLast, jsCalls>>

\* The host drops the pending promise i: nothing of the binding holds on its
\* being kept, the task and its Deferred are the runtime's.
JsAbandon(i) ==
    /\ promises[i].state = "pending"
    /\ promises[i].held
    /\ promises' = [promises EXCEPT ![i].held = FALSE]
    /\ UNCHANGED <<tables, pyVars, jsStatics, boxes, jsTasks, channel, jsLast,
                   jsCalls>>

JsInit ==
    /\ RUNTIME = 0
    /\ LOG = FALSE
    /\ created = 0
    /\ logInits = 0
    /\ boxes = <<>>
    /\ jsTasks = <<>>
    /\ promises = <<>>
    /\ channel = <<>>
    /\ jsLast = JsCallRec("none", 0, Undefined, Undefined, Undefined, "none",
                          <<>>, 0, 0)
    /\ jsCalls = 0

JsNext ==
    \/ \E p \in PathArgs, k \in KeyArgs, s \in SecretArgs, t \in TokenArgs,
          r \in RegionArgs, d \in IntervalArgs, ok \in NewOks :
          JsDatabaseNew(p, k, s, t, r, d, ok)
    \/ \E this \in 0..Len(boxes), ok \in NewOks : JsTableNames(this, ok)
    \/ \E this \in 0..Len(boxes), n \in NameArgs, k \in KeyArgs, s \in SecretArgs,
          t \in TokenArgs, r \in RegionArgs, ok \in NewOks :
          JsOpenTable(this, n, k, s, t, r, ok)
    \/ \E this \in 0..Len(boxes), n \in NameArgs, ok \in NewOks :
          JsDropTable(this, n, ok)
    \/ \E i \in 1..Len(jsTasks), f \in BOOLEAN : JsRun(i, f)
    \/ JsSettle

PyInit ==
    /\ inner = <<>>
    /\ pyTables = <<>>
    /\ pyTasks = <<>>
    /\ pyFuts = <<>>
    /\ pyLast = PyCallRec("none", 0, TRUE, None, None, "none", 0)
    /\ pyCalls = 0

\* The Python binding called with, of the optional arguments, at most the
\* read_consistency_interval of connect.
PyNext ==
    \/ \E d \in PyIntervalArgs :
          PyConnect(PyOpts(<<>>, <<>>, <<>>, d, <<>>, <<>>))
    \/ \E h \in Handles : PyClose(h)
    \/ \E h \in Handles, sa \in {None, "t"}, lim \in {<<>>, <<1>>} :
          PyTableNames(h, sa, lim)
    \/ \E h \in Handles, n \in Names, m \in ModeStrings, p \in Payloads :
          PyCreateTable(h, n, m, p, <<>>)
    \/ \E h \in Handles, n \in Names, m \in ModeStrings, p \in Payloads :
          PyCreateEmptyTable(h, n, m, p, <<>>)
    \/ \E h \in Handles, n \in Names : PyOpenTable(h, n, <<>>, <<>>)
    \/ \E h \in Handles, n \in Names : PyDropTable(h, n)
    \/ \E h \in Handles : PyDropDb(h)
    \/ \E i \in 1..Len(pyTasks), f \in BOOLEAN : PyRun(i, f)
    \/ \E i \in 1..Len(pyTasks) : PySettle(i)

Init == tables \in SUBSET Names /\ PyInit /\ JsInit

Next == PyNext \/ JsNext

\* Every task spawned so far is done: the host has awaited what it called.
Awaited ==
    /\ \A i \in 1..Len(pyTasks) : pyTasks[i].stage = "done"
    /\ \A i \in 1..Len(jsTasks) : jsTasks[i].stage = "done"

\* The host calls of the Python binding with every optional argument passed
\* or left out.
PyCallWithOptions ==
    \/ \E a \in ApiKeyArgs, r \in PyRegionArgs, o \in HostOverrideArgs,
          d \in PyIntervalArgs, so \in StorageOptionsArgs :
          PyConnect(PyOpts(a, r, o, d, so, <<>>))
    \/ \E h \in Handles : PyClose(h)
    \/ \E h \in Handles, n \in Names, m \in ModeStrings, p \in Payloads,
          so \in StorageOptionsArgs : PyCreateTable(h, n, m, p, so)
    \/ \E h \in Handles, n \in Names, m \in ModeStrings, p \in Payloads,
          so \in StorageOptionsArgs : PyCreateEmptyTable(h, n, m, p, so)
    \/ \E h \in Handles, n \in Names, so \in StorageOptionsArgs,
          ics \in IndexCacheSizeArgs : PyOpenTable(h, n, so, ics)

\* The host calls of the Node binding that take optional arguments.
JsCallWithOptions ==
    \/ \E p \in PathArgs, k \in KeyArgs, s \in SecretArgs, t \in TokenArgs,
          r \in RegionArgs, d \in IntervalArgs, ok \in NewOks :
          JsDatabaseNew(p, k, s, t, r, d, ok)
    \/ \E this \in 0..Len(boxes), n \in NameArgs, k \in KeyArgs, s \in SecretArgs,
          t \in TokenArgs, r \in RegionArgs, ok \in NewOks :
          JsOpenTable(this, n, k, s, t, r, ok)

\* Either binding, driven by a host that awaits each call before it makes the
\* next and passes any of the optional arguments.
OptionsNext ==
    \/ Awaited /\ PyCallWithOptions
    \/ Awaited /\ JsCallWithOptions
    \/ \E i \in 1..Len(pyTasks), f \in BOOLEAN : PyRun(i, f)
    \/ \E i \in 1..Len(pyTasks) : PySettle(i)
    \/ \E i \in 1..Len(jsTasks), f \in BOOLEAN : JsRun(i, f)
    \/ JsSettle

SpecOptions == Init /\ [][OptionsNext]_vars

\* A process with either binding; each binding alone.
Spec == Init /\ [][Next]_vars

SpecNode == Init /\ [][JsNext]_vars

\* The Node binding with credentials, region and interval left out of its
\* calls, under the scheduling the runtime and the event loop give: a spawned
\* task is run, and a closure in the channel is run.
JsPlainNext ==
    \/ \E p \in PathArgs, ok \in NewOks :
          JsDatabaseNew(p, Undefined, Undefined, Undefined, Undefined, Undefined, ok)
    \/ \E this \in 0..Len(boxes), ok \in NewOks : JsTableNames(this, ok)
    \/ \E this \in 0..Len(boxes), n \in NameArgs, ok \in NewOks :
          JsOpenTable(this, n, Undefined, Undefined, Undefined, Undefined, ok)
    \/ \E this \in 0..Len(boxes), n \in NameArgs, ok \in NewOks :
          JsDropTable(this, n, ok)
    \/ \E i \in 1..Len(jsTasks), f \in BOOLEAN : JsRun(i, f)
    \/ JsSettle

FairNode ==
    /\ Init
    /\ [][JsPlainNext]_vars
    /\ WF_vars(JsSettle)
    /\ \A i \in 1..MaxCalls :
          WF_vars(i \in 1..Len(jsTasks) /\ \E f \in BOOLEAN : JsRun(i, f))

SpecPy == Init /\ [][PyNext]_vars

\* Either binding, connecting and dropping tables, with a host that may
\* abandon an awaitable it was given: drop a promise, cancel a Python
\* awaitable.
AbandonNext ==
    \/ \E ok \in NewOks :
          JsDatabaseNew(Str("mem://db"), Undefined, Undefined, Undefined,
                        Undefined, Undefined, ok)
    \/ \E this \in 1..Len(boxes), n \in Names, ok \in NewOks :
          JsDropTable(this, Str(n), ok)
    \/ \E i \in 1..Len(promises) : JsAbandon(i)
    \/ \E i \in 1..Len(jsTasks), f \in BOOLEAN : JsRun(i, f)
    \/ JsSettle
    \/ PyConnect(NoOpts)
    \/ \E h \in Handles, n \in Names : PyDropTable(h, n)
    \/ \E i \in 1..Len(pyTasks) : PyCancel(i)
    \/ \E i \in 1..Len(pyTasks) : PyDropFuture(i)
    \/ \E i \in 1..Len(pyTasks), f \in BOOLEAN : PyRun(i, f)
    \/ \E i \in 1..Len(pyTasks) : PySettle(i)

\* The runtime runs every task spawned on it and the event loop of Node runs
\* every closure sent to it.
FairAbandon ==
    /\ Init
    /\ [][AbandonNext]_vars
    /\ WF_vars(JsSettle)
    /\ \A i \in 1..MaxCalls :
          /\ WF_vars(i \in 1..Len(jsTasks) /\ \E f \in BOOLEAN : JsRun(i, f))
          /\ WF_vars(i \in 1..Len(pyTasks)
                       /\ ((\E f \in BOOLEAN : PyRun(i, f)) \/ PyDropFuture(i)))
          /\ WF_vars(i \in 1..Len(pyTasks) /\ PySettle(i))

\* ------------------------------------------------------------------ claims
\* A step that is a host call of the Python binding.
PyCallStep == pyCalls' = pyCalls + 1

\* The operations of a Connection handle that go through get_inner.
HandleOps == {"table_names", "create_table", "create_empty_table", "open_table",
              "drop_table", "drop_db"}
CreateOps == {"create_table", "create_empty_table"}

\* C1: every operation called on a closed Connection handle, whatever its
\* arguments, raises ClosedHandle in the host call itself; the call spawns no
\* Rust future, creates no awaitable and leaves the engine's tables alone.
C1_ClosedHandleFailsSynchronously ==
    [][\A h \in Handles :
         (PyCallStep /\ pyLast'.h = h /\ pyLast'.op \in HandleOps /\ ~is_open(h))
         => /\ pyLast'.outcome = ClosedHandle
            /\ pyLast'.fut = 0
            /\ UNCHANGED <<pyTasks, pyFuts, tables, inner>>]_vars

\* A create_table with a valid mode and payload was called on a closed handle.
C1_Witness ==
    /\ pyLast.op = "create_table"
    /\ ~pyLast.open
    /\ pyLast.mode = "create"
    /\ pyLast.payload = "arrow"
    /\ pyLast.outcome = ClosedHandle

\* C2: close() on a handle that is already closed returns without an error and
\* changes nothing: the handle stays closed, its reference absent.
C2_CloseIdempotent ==
    [][\A h \in Handles :
         (PyCallStep /\ pyLast'.h = h /\ pyLast'.op = "close" /\ ~is_open(h))
         => /\ pyLast'.outcome = "returned"
            /\ inner'[h] = None
            /\ UNCHANGED <<inner, pyTasks, pyFuts, tables>>]_vars

\* close() was called on a handle that an earlier close() had closed.
C2_Witness ==
    /\ pyLast.op = "close"
    /\ ~pyLast.open
    /\ pyLast.outcome = "returned"
    /\ inner[pyLast.h] = None

\* C3: is_open() is true exactly when the reference is present (get_inner
\* succeeds), and a handle that is closed stays closed over every step, the
\* completions and settlements of earlier operations included.
C3_OpenIffPresentAndIrreversible ==
    /\ [](\A h \in Handles : is_open(h) <=> (get_inner(h).ok /\ inner[h] = "db"))
    /\ [][\A h \in Handles : ~is_open(h) => (inner'[h] = None)]_vars

\* A handle is closed and a connect issued after it was made has settled.
C3_Witness ==
    /\ Len(inner) = 2
    /\ ~is_open(1)
    /\ is_open(2)

\* C4: create_table / create_empty_table on an open handle with a mode string
\* other than "create", "overwrite", "exist_ok" raises InvalidArgument in the
\* host call; nothing is spawned, no awaitable is made, the tables are unchanged.
C4_InvalidModeFailsSynchronously ==
    [][\A h \in Handles :
         (PyCallStep /\ pyLast'.h = h /\ pyLast'.op \in CreateOps /\ is_open(h)
            /\ pyLast'.mode \notin GoodModes)
         => /\ pyLast'.outcome = InvalidArgument
            /\ pyLast'.fut = 0
            /\ UNCHANGED <<pyTasks, pyFuts, tables, inner>>]_vars

\* create_empty_table was called on an open handle with the mode "Create".
C4_Witness ==
    /\ pyLast.op = "create_empty_table"
    /\ pyLast.open
    /\ pyLast.mode = "Create"
    /\ pyLast.payload = "arrow"
    /\ pyLast.outcome = InvalidArgument

\* A step that is a host call of the Node binding.
JsCallStep == jsCalls' = jsCalls + 1

\* What a call throws for an argument other than the credential's.
OtherArgErrors == {HostTypeError, HostPanic}

\* The operations that read a credential from their arguments.
CredOps == {"connect", "open_table"}

\* The step threw before a promise was made or a task spawned, and before the
\* runtime was asked for.
JsThrewBeforeDispatch ==
    /\ jsLast'.promise = 0
    /\ UNCHANGED <<promises, jsTasks, channel, boxes, tables, jsStatics>>

\* The step got as far as runtime(cx); with the runtime at hand it made one
\* promise and spawned one task carrying the credential creds.
JsProceeded(creds) ==
    /\ LOG'
    /\ jsLast'.outcome \in {"Promise", RuntimeFailure}
    /\ jsLast'.outcome = "Promise" =>
          /\ Len(promises') = Len(promises) + 1
          /\ Len(jsTasks') = Len(jsTasks) + 1
          /\ jsLast'.promise = Len(promises')
          /\ jsTasks'[Len(jsTasks')].creds = creds
          /\ jsLast'.creds = creds

\* C5: in connect and open-table of the Node binding, a key id (a string)
\* without a secret, or a secret without a key id, throws InvalidArgument in the
\* host call, before the runtime is asked for, a promise made or a task spawned;
\* with both, the call goes on with a credential of exactly the given key id,
\* secret and token (absent when no token is given).
C5_CredentialValidation ==
    [][(JsCallStep /\ jsLast'.op \in CredOps /\ jsLast'.outcome \notin OtherArgErrors)
       => LET k == jsLast'.key
              s == jsLast'.secret
              t == jsLast'.token
          IN  /\ (k # <<>> /\ s = <<>>) =>
                    (jsLast'.outcome = InvalidArgument /\ JsThrewBeforeDispatch)
              /\ (k = <<>> /\ s # <<>>) =>
                    (jsLast'.outcome = InvalidArgument /\ JsThrewBeforeDispatch)
              /\ (k # <<>> /\ s # <<>>) =>
                    JsProceeded(<<[key_id |-> k[1], secret_key |-> s[1],
                                   token |-> t]>>)]_vars

\* An open-table call with key id, secret and token was dispatched.
C5_Witness ==
    /\ jsLast.op = "open_table"
    /\ jsLast.key = <<"AK">> /\ jsLast.secret = <<"SK">> /\ jsLast.token = <<"TK">>
    /\ jsLast.outcome = "Promise"
    /\ jsTasks[jsLast.promise].creds =
          <<[key_id |-> "AK", secret_key |-> "SK", token |-> <<"TK">>]>>

\* C6 as stated: with neither key id nor secret the credential is absent and
\* the call goes on, whatever the temporary token.
C6_AbsentForEveryToken ==
    [][(JsCallStep /\ jsLast'.op \in CredOps /\ jsLast'.outcome \notin OtherArgErrors
          /\ jsLast'.key = <<>> /\ jsLast'.secret = <<>>)
       => JsProceeded(<<>>)]_vars

\* C6 (amended): with none of key id, secret and temporary token the credential
\* is absent and the call goes on; with a temporary token alone the call throws
\* InvalidArgument before anything is dispatched.
C6_AbsentOnlyWithoutToken ==
    [][(JsCallStep /\ jsLast'.op \in CredOps /\ jsLast'.outcome \notin OtherArgErrors
          /\ jsLast'.key = <<>> /\ jsLast'.secret = <<>>)
       => IF jsLast'.token = <<>>
          THEN JsProceeded(<<>>)
          ELSE jsLast'.outcome = InvalidArgument /\ JsThrewBeforeDispatch]_vars

\* A connect with a temporary token and nothing else threw InvalidArgument.
C6_Witness ==
    /\ jsLast.op = "connect"
    /\ jsLast.key = <<>> /\ jsLast.secret = <<>> /\ jsLast.token = <<"TK">>
    /\ jsLast.outcome = InvalidArgument

\* How often promise / awaitable i has a settlement waiting in the channel.
InChannel(i) == Cardinality({k \in 1..Len(channel) : channel[k].id = i})

JsSettledOnce ==
    /\ Len(promises) = Len(jsTasks)
    /\ \A i \in 1..Len(promises) :
          /\ promises[i].settles <= 1
          /\ promises[i].state = "pending" <=> promises[i].settles = 0
          /\ jsTasks[i].stage = "spawned" => (promises[i].settles = 0 /\ InChannel(i) = 0)
          /\ jsTasks[i].stage = "sent" => (promises[i].settles = 0 /\ InChannel(i) = 1)
          /\ jsTasks[i].stage = "done" => (promises[i].settles = 1 /\ InChannel(i) = 0)

PySettledOnce ==
    /\ Len(pyFuts) = Len(pyTasks)
    /\ \A i \in 1..Len(pyFuts) :
          /\ pyFuts[i].settles <= 1
          /\ pyFuts[i].state = "pending" <=> pyFuts[i].settles = 0
          /\ pyTasks[i].stage \in {"spawned", "finished"} => pyFuts[i].settles = 0
          /\ pyTasks[i].stage = "done" => pyFuts[i].settles = 1

\* A host call makes one pending awaitable and one task when it returns an
\* awaitable, and none when it fails (or, for close, returns) synchronously.
OneAwaitablePerDispatch ==
    /\ JsCallStep =>
          IF jsLast'.outcome = "Promise"
          THEN /\ Len(promises') = Len(promises) + 1
               /\ Len(jsTasks') = Len(jsTasks) + 1
               /\ promises'[Len(promises')].settles = 0
               /\ SubSeq(promises', 1, Len(promises)) = promises
          ELSE UNCHANGED <<promises, jsTasks, channel>>
    /\ PyCallStep =>
          IF pyLast'.outcome = "Awaitable"
          THEN /\ Len(pyFuts') = Len(pyFuts) + 1
               /\ Len(pyTasks') = Len(pyTasks) + 1
               /\ pyFuts'[Len(pyFuts')].settles = 0
               /\ SubSeq(pyFuts', 1, Len(pyFuts)) = pyFuts
          ELSE UNCHANGED <<pyFuts, pyTasks>>

\* C7: every awaitable a host call returned is settled at most once, exactly
\* once when its operation is done, and between the completion of the native
\* operation and the settlement exactly one settlement is under way; a host
\* call that fails synchronously makes no awaitable and spawns no task.
C7_ExactlyOnceSettlement ==
    /\ [](JsSettledOnce /\ PySettledOnce)
    /\ [][OneAwaitablePerDispatch]_vars

\* Of two promises of the Node binding one was rejected and one resolved, once
\* each, and a later call threw synchronously.
C7_Witness ==
    /\ \E i, j \in 1..Len(promises) :
          /\ promises[i].state = "rejected" /\ promises[i].settles = 1
          /\ promises[j].state = "resolved" /\ promises[j].settles = 1
    /\ jsLast.outcome = InvalidArgument
    /\ Len(promises) = 2

IsTableNames(i) == i \in 1..Len(jsTasks) /\ jsTasks[i].op = "table_names"

\* C8: under fair scheduling every tableNames call that was dispatched is
\* eventually settled, once, with the result of its own native operation,
\* however many other calls are in flight and in whatever order they complete.
C8_ConcurrentTableNamesSettle ==
    /\ \A i \in 1..MaxCalls :
          IsTableNames(i) ~>
             (/\ IsTableNames(i)
              /\ jsTasks[i].stage = "done"
              /\ promises[i].settles = 1
              /\ promises[i].value = jsTasks[i].res)
    /\ [](\A i \in 1..Len(promises) :
             /\ promises[i].settles <= 1
             /\ (IsTableNames(i) /\ promises[i].settles = 1)
                   => promises[i].value = jsTasks[i].res)

\* Two tableNames calls were in flight together and the later one is settled
\* while the earlier one has not yet run.
C8_Witness ==
    \E i, j \in 1..Len(jsTasks) :
        /\ i < j
        /\ IsTableNames(i) /\ IsTableNames(j)
        /\ jsTasks[i].stage = "spawned"
        /\ jsTasks[j].stage = "done"
        /\ promises[j].settles = 1

\* Task i is run by a worker in this step.
WorkerRuns(i) == jsTasks[i].stage = "spawned" /\ jsTasks'[i].stage # "spawned"

\* C9: the step in which a worker runs a task changes no host object (promise,
\* boxed handle, thrown error): it only enqueues the settlement on the channel;
\* host objects change only in a host call or when the host's event loop takes a
\* settlement from the channel.
C9_HostObjectsOnlyOnHostContext ==
    [][/\ \A i \in 1..Len(jsTasks) :
             WorkerRuns(i) =>
                /\ UNCHANGED <<promises, boxes, jsLast, jsCalls>>
                /\ channel' = Append(channel, [id |-> i, res |-> jsTasks'[i].res])
       /\ (promises' # promises \/ boxes' # boxes \/ jsLast' # jsLast) =>
             \/ JsCallStep
             \/ channel # <<>> /\ channel' = Tail(channel)]_vars

\* A worker has connected and sent the settlement; the host has not run it yet:
\* the promise is pending and no database is boxed.
C9_Witness ==
    \E i \in 1..Len(jsTasks) :
        /\ jsTasks[i].stage = "sent"
        /\ jsTasks[i].res.kind = "conn"
        /\ promises[i].state = "pending"
        /\ boxes = <<>>
        /\ channel # <<>>

\* C10: at most one engine is ever built and installed; every successful call
\* of runtime() returns the installed engine and every task is spawned on it.
C10_SingleEngine ==
    /\ created <= 1
    /\ RUNTIME = created
    /\ \A i \in 1..Len(jsTasks) : RUNTIME # 0 /\ jsTasks[i].rt = RUNTIME
    /\ jsLast.outcome = "Promise" => (RUNTIME # 0 /\ jsLast.rt = RUNTIME)

\* Three calls asked for the runtime or threw before; two of them spawned a
\* task, both on the one engine.
C10_Witness ==
    /\ Len(jsTasks) = 2
    /\ jsCalls = 3
    /\ jsTasks[1].rt = 1 /\ jsTasks[2].rt = 1
    /\ RUNTIME = 1

\* A host call that entered runtime(cx): it returned a promise or threw the
\* failure of Runtime::new().
JsAskedRuntime == JsCallStep /\ jsLast'.outcome \in {"Promise", RuntimeFailure}

\* C11 as stated: an engine-creation failure is thrown to the first caller of
\* runtime() only; no later caller observes one.
C11_FailureToFirstCallerOnly ==
    [][(JsCallStep /\ jsLast'.outcome = RuntimeFailure) => jsLast'.first]_vars

\* C11, amended: an engine-creation failure is thrown exactly to the callers
\* whose own Runtime::new() failed, which are callers that found no engine
\* installed; the failed call installs and spawns nothing, and once an engine
\* is installed no caller observes a creation failure.
C11_FailureToCallersThatFoundNoEngine ==
    [][JsAskedRuntime =>
          /\ jsLast'.outcome = RuntimeFailure <=> jsLast'.attempt = "failed"
          /\ jsLast'.outcome = RuntimeFailure =>
                /\ RUNTIME = 0 /\ RUNTIME' = 0
                /\ UNCHANGED <<created, jsTasks, promises, channel, boxes>>
          /\ RUNTIME # 0 => jsLast'.outcome = "Promise"]_vars

\* A caller that was not the first to enter runtime() observed an
\* engine-creation failure.
C11_Witness ==
    /\ jsLast.outcome = RuntimeFailure
    /\ ~jsLast.first
    /\ RUNTIME = 0

\* C12: env_logger::init has run at most once, and exactly once as soon as any
\* call entered runtime(), whether that call or an earlier one failed to build
\* the engine or not.
C12_LogInitialisedOnce ==
    /\ logInits <= 1
    /\ LOG <=> logInits = 1
    /\ jsLast.outcome \in {"Promise", RuntimeFailure} => logInits = 1

\* A call that entered runtime() after an earlier call had failed there, and
\* failed again: logging has still been initialised once.
C12_Witness ==
    /\ jsLast.outcome = RuntimeFailure
    /\ ~jsLast.first
    /\ jsCalls = MaxCalls
    /\ logInits = 1

\* The errors of validation: a closed handle, a bad mode string, inconsistent
\* credentials.
ValidationKinds == {ClosedHandle, InvalidArgument}

\* A task whose native operation failed has an awaitable, pending until the
\* host settles it and then rejected with the task's error.
FailureIsRejection(tasks, futs) ==
    \A i \in 1..Len(tasks) :
        tasks[i].res.kind = ExecutionFailure =>
           /\ i <= Len(futs)
           /\ tasks[i].stage # "done" => futs[i].state = "pending"
           /\ tasks[i].stage = "done" =>
                 futs[i].state = "rejected" /\ futs[i].value = tasks[i].res

NoValidationRejection(futs) ==
    \A i \in 1..Len(futs) :
        futs[i].state = "rejected" => futs[i].value.kind \notin ValidationKinds

\* A step in which the native operation of some task fails.
OperationFails ==
    \/ \E i \in 1..Len(pyTasks) :
          pyTasks[i].stage = "spawned" /\ pyTasks'[i].res.kind = ExecutionFailure
    \/ \E i \in 1..Len(jsTasks) :
          jsTasks[i].stage = "spawned" /\ jsTasks'[i].res.kind = ExecutionFailure

\* C13: a failure of the scheduled native operation (of connect as of any
\* other) is never thrown by a host call: the call had returned its awaitable
\* before the operation failed, and the failure reaches the host only as the
\* rejection of that awaitable; no awaitable is ever rejected with a validation
\* error (closed handle, bad mode string, inconsistent credentials).
C13_ExecutionErrorsAsynchronous ==
    /\ [](/\ pyLast.outcome # ExecutionFailure
          /\ jsLast.outcome # ExecutionFailure
          /\ FailureIsRejection(pyTasks, pyFuts)
          /\ FailureIsRejection(jsTasks, promises)
          /\ NoValidationRejection(pyFuts)
          /\ NoValidationRejection(promises))
    /\ [][OperationFails => UNCHANGED <<pyLast, pyCalls, jsLast, jsCalls,
                                        pyFuts, promises>>]_vars

\* connect itself failed and its awaitable is rejected with the failure; a
\* later call with a bad mode string raised InvalidArgument in the call.
C13_Witness ==
    /\ Len(pyFuts) = 2
    /\ pyTasks[1].op = "connect"
    /\ pyFuts[1].state = "rejected"
    /\ pyFuts[1].value.kind = ExecutionFailure
    /\ pyLast.outcome = InvalidArgument
    /\ pyLast.mode = "append"

\* Field f of request q is what the call supplied for it, or else what the
\* engine's builder d has there. SetOption is for a field that is an Option,
\* SetValue for one that holds the value itself.
SetOption(q, d, f, arg) == q[f] = IF arg # <<>> THEN arg ELSE d[f]
SetValue(q, d, f, arg) == q[f] = IF arg # <<>> THEN arg[1] ELSE d[f]

PyLastRequest == PyRequest(pyTasks'[Len(pyTasks')])
JsLastRequest == JsRequest(jsTasks'[Len(jsTasks')])

\* connect of the Python binding: each of the five optional arguments.
PyConnectApplies ==
    \A a \in ApiKeyArgs, r \in PyRegionArgs, o \in HostOverrideArgs,
       d \in PyIntervalArgs, so \in StorageOptionsArgs :
       PyConnect(PyOpts(a, r, o, d, so, <<>>)) =>
          /\ SetOption(PyLastRequest, ConnectDefaults, "api_key", a)
          /\ SetOption(PyLastRequest, ConnectDefaults, "region", r)
          /\ SetOption(PyLastRequest, ConnectDefaults, "host_override", o)
          /\ SetValue(PyLastRequest, ConnectDefaults, "storage_options", so)
          /\ (d = <<>> \/ from_secs_f64(d[1]).ok) =>
                SetOption(PyLastRequest, ConnectDefaults,
                          "read_consistency_interval", d)
          /\ PyLastRequest.aws_creds = ConnectDefaults.aws_creds

\* open_table of the Python binding: storage options and index cache size.
PyOpenTableApplies ==
    \A h \in Handles, n \in Names, so \in StorageOptionsArgs,
       ics \in IndexCacheSizeArgs :
       (PyOpenTable(h, n, so, ics) /\ pyLast'.outcome = "Awaitable") =>
          /\ SetValue(PyLastRequest, OpenTableDefaults, "storage_options", so)
          /\ SetOption(PyLastRequest, OpenTableDefaults, "index_cache_size", ics)
          /\ PyLastRequest.lance_read_params = OpenTableDefaults.lance_read_params
          /\ (so = <<>> /\ ics = <<>>) => PyLastRequest = OpenTableDefaults

\* The create operations of the Python binding: storage options.
PyCreateApplies ==
    \A h \in Handles, n \in Names, m \in ModeStrings, p \in Payloads,
       so \in StorageOptionsArgs :
       (/\ PyCreateTable(h, n, m, p, so) \/ PyCreateEmptyTable(h, n, m, p, so)
        /\ pyLast'.outcome = "Awaitable") =>
          /\ SetValue(PyLastRequest, CreateTableDefaults, "storage_options", so)
          /\ PyLastRequest.mode = parse_create_mode_str(m).mode

\* connect of the Node binding: region, credential, read-consistency interval.
JsConnectApplies ==
    \A p \in PathArgs, k \in KeyArgs, s \in SecretArgs, t \in TokenArgs,
       r \in RegionArgs, d \in IntervalArgs, ok \in NewOks :
       (JsDatabaseNew(p, k, s, t, r, d, ok) /\ jsLast'.outcome = "Promise") =>
          /\ SetOption(JsLastRequest, ConnectDefaults, "region", opt_string(r))
          /\ SetOption(JsLastRequest, ConnectDefaults, "aws_creds",
                       get_aws_creds(k, s, t).creds)
          /\ SetOption(JsLastRequest, ConnectDefaults,
                       "read_consistency_interval",
                       IF d.t = "number" THEN <<d.v>> ELSE <<>>)
          /\ JsLastRequest.api_key = ConnectDefaults.api_key
          /\ JsLastRequest.host_override = ConnectDefaults.host_override
          /\ JsLastRequest.storage_options = ConnectDefaults.storage_options

\* open_table of the Node binding: a supplied credential or region is set on
\* the object-store options of the request.
JsOpenTableApplies ==
    \A this \in 0..Len(boxes), n \in NameArgs, k \in KeyArgs, s \in SecretArgs,
       t \in TokenArgs, r \in RegionArgs, ok \in NewOks :
       (/\ JsOpenTable(this, n, k, s, t, r, ok)
        /\ jsLast'.outcome = "Promise"
        /\ opt_string(k) # <<>> \/ opt_string(r) # <<>>) =>
          /\ JsLastRequest.lance_read_params # <<>>
          /\ JsLastRequest.lance_read_params[1].store_options # <<>>
          /\ LET o == JsLastRequest.lance_read_params[1].store_options[1] IN
                /\ o.aws_credentials = get_aws_creds(k, s, t).creds
                /\ o.region = opt_string(r)
          /\ JsLastRequest.storage_options = OpenTableDefaults.storage_options
          /\ JsLastRequest.index_cache_size = OpenTableDefaults.index_cache_size

\* open_table of the Node binding with no credential and no region (it takes
\* no storage options): the request is the engine's default request.
JsOpenTableDefaults ==
    \A this \in 0..Len(boxes), n \in NameArgs, ok \in NewOks :
       (/\ JsOpenTable(this, n, Undefined, Undefined, Undefined, Undefined, ok)
        /\ jsLast'.outcome = "Promise") =>
          JsLastRequest = OpenTableDefaults

TableHandlesOfFutures ==
    \A i \in 1..Len(pyFuts) :
        pyFuts[i].value.kind = "table" =>
           /\ pyFuts[i].value.id \in 1..Len(pyTables)
           /\ pyTables[pyFuts[i].value.id] = pyFuts[i].value.names[1]

\* C15: close() on a Connection changes no Table handle, whichever operation of
\* whichever Connection produced it: every Table handle wraps the same native
\* table after the close as before and stays usable, and the handles the
\* host's awaitables resolved with are the same.
C15_TableIndependentOfConnection ==
    /\ [][(PyCallStep /\ pyLast'.op = "close") =>
             /\ pyTables' = pyTables
             /\ pyFuts' = pyFuts
             /\ \A k \in 1..Len(pyTables) : TableUsable(k) => TableUsable(k)']_vars
    /\ [](/\ TableHandlesOfFutures
          /\ \A k \in 1..Len(pyTables) : TableUsable(k))

\* The one Connection there is produced a Table handle and was closed, while
\* open, by the last call: the Table handle is usable.
C15_Witness ==
    /\ Len(inner) = 1
    /\ inner[1] = None
    /\ pyLast.op = "close"
    /\ pyLast.open
    /\ Len(pyTables) = 1
    /\ TableUsable(1)
    /\ \E i \in 1..Len(pyFuts) :
          pyFuts[i].state = "resolved" /\ pyFuts[i].value.kind = "table"

\* The host abandoned awaitable i before it settled.
JsAbandoned(i) == i \in 1..Len(promises) /\ ~promises[i].held
PyAbandoned(i) == i \in 1..Len(pyFuts) /\ pyFuts[i].state = "cancelled"

\* No task is cancelled: a task that was spawned is not taken off the engine
\* before its operation has run.
NoTaskCancelled ==
    /\ \A i \in 1..Len(jsTasks) : jsTasks'[i].stage # "cancelled"
    /\ \A i \in 1..Len(pyTasks) : pyTasks'[i].stage # "cancelled"

\* The operation of a task, abandoned or not, has its effect on the engine in
\* the step that runs it.
EffectTakesPlace ==
    /\ \A i \in 1..Len(jsTasks) :
          (jsTasks[i].stage = "spawned" /\ jsTasks'[i].stage = "sent"
           /\ ~IsErr(jsTasks'[i].res)) => tables' = NativeTables(tables, jsTasks[i])
    /\ \A i \in 1..Len(pyTasks) :
          (pyTasks[i].stage = "spawned" /\ pyTasks'[i].stage = "finished"
           /\ ~IsErr(pyTasks'[i].res)) => tables' = NativeTables(tables, pyTasks[i])

\* What becomes of an abandoned awaitable raises nothing in the host: no host
\* call is affected, and a cancelled Python awaitable is never settled.
DiscardedWithoutError ==
    /\ \A i \in 1..Len(promises) :
          (JsAbandoned(i) /\ promises'[i] # promises[i]) =>
             /\ UNCHANGED <<jsLast, jsCalls, tables>>
             /\ promises'[i].settles = 1
             /\ promises'[i].value = JsHostValue(jsTasks[i].res)
    /\ \A i \in 1..Len(pyFuts) :
          PyAbandoned(i) => pyFuts'[i] = pyFuts[i]

TranslatedTo(cm) ==
    /\ pyLast'.outcome # InvalidArgument
    /\ pyLast'.outcome = "Awaitable" => pyTasks'[Len(pyTasks')].mode = cm

\* C17: in every state in which a create operation is called on an open
\* handle, the mode string decides the translation alone: "create" gives
\* Create, "overwrite" Overwrite, "exist_ok" ExistOk, and every other string
\* (another capitalisation, the empty string) InvalidArgument; the call then
\* ends in the translation's error, a conversion error or an awaitable, and
\* changes no handle and no engine state.
C17_ModeTranslationPureTotal ==
    [][\A m \in ModeStrings :
          (PyCallStep /\ pyLast'.op \in CreateOps /\ pyLast'.open
           /\ pyLast'.mode = m) =>
             /\ m = "create" => TranslatedTo("Create")
             /\ m = "overwrite" => TranslatedTo("Overwrite")
             /\ m = "exist_ok" => TranslatedTo("ExistOk")
             /\ m \notin GoodModes => pyLast'.outcome = InvalidArgument
             /\ pyLast'.outcome \in {InvalidArgument, ConversionFailure, "Awaitable"}
             /\ UNCHANGED <<inner, pyTables, tables>>]_vars

\* A create call with the mode "exist_ok", made while the engine holds a table
\* and an earlier task exists, dispatched a request that carries ExistOk.
C17_Witness ==
    /\ Len(pyTasks) >= 2
    /\ pyLast.mode = "exist_ok"
    /\ pyLast.outcome = "Awaitable"
    /\ pyTasks[Len(pyTasks)].stage = "spawned"
    /\ pyTasks[Len(pyTasks)].mode = "ExistOk"
    /\ tables # {}

\* An earlier create or open of table n was awaited and resolved with a Table
\* handle.
CreatedBefore(i, n) ==
    \E j \in 1..(i - 1) :
        /\ pyFuts[j].state = "resolved"
        /\ pyFuts[j].value.kind = "table"
        /\ pyFuts[j].value.names = <<n>>

\* Task i is the create_empty_table the host called last and is awaiting, and
\* this step runs it without an I/O failure.
RunsAwaitedCreate(i) ==
    /\ PyRun(i, FALSE)
    /\ pyLast.fut = i
    /\ pyLast.op = "create_empty_table"

\* C18: with every call awaited before the next, a create_empty_table with
\* "exist_ok" that meets no I/O failure succeeds whether the table exists or
\* not, also after an earlier create of the same name, and its awaitable
\* resolves with a usable Table handle of that name; one with "create" that
\* follows a resolved create of the same name fails with ExecutionFailure,
\* leaves the tables as they were, and its awaitable rejects with that error.
C18_CreateModeRoundTrip ==
    [][/\ \A i \in 1..Len(pyTasks) :
             RunsAwaitedCreate(i) =>
                /\ pyLast.mode = "exist_ok" =>
                      /\ pyTasks'[i].res = Val("table", <<pyTasks[i].name>>, 0)
                      /\ tables' = tables \cup {pyTasks[i].name}
                /\ (pyLast.mode = "create" /\ CreatedBefore(i, pyTasks[i].name)) =>
                      /\ pyTasks'[i].res = Err(ExecutionFailure)
                      /\ tables' = tables
                      /\ pyTasks[i].name \in tables
       /\ \A i \in 1..Len(pyTasks) :
             (pyTasks[i].stage = "finished" /\ pyTasks'[i].stage = "done"
              /\ pyLast.op = "create_empty_table") =>
                IF IsErr(pyTasks[i].res)
                THEN /\ pyFuts'[i].state = "rejected"
                     /\ pyFuts'[i].value = pyTasks[i].res
                ELSE /\ pyFuts'[i].state = "resolved"
                     /\ pyFuts'[i].value.kind = "table"
                     /\ pyFuts'[i].value.id \in 1..Len(pyTables')
                     /\ pyFuts'[i].value.names = pyTasks[i].res.names
                     /\ pyTables'[pyFuts'[i].value.id] = pyTasks[i].res.names[1]
                     /\ pyTables'[pyFuts'[i].value.id] # None]_vars

\* On one connection a first create_empty_table resolved with a Table handle
\* and a second one, with "create", was rejected with ExecutionFailure; the
\* table is in place and the first handle usable.
C18_Witness ==
    /\ Len(pyFuts) = 3
    /\ Len(inner) = 1
    /\ pyFuts[2].state = "resolved"
    /\ pyFuts[2].value.kind = "table"
    /\ TableUsable(pyFuts[2].value.id)
    /\ pyLast.op = "create_empty_table"
    /\ pyLast.mode = "create"
    /\ pyFuts[3].state = "rejected"
    /\ pyFuts[3].value.kind = ExecutionFailure
    /\ tables = {"t"}

\* Task i is an operation of a Connection handle that has not run yet.
InFlight(i) == pyTasks[i].stage = "spawned" /\ pyTasks[i].op \in HandleOps

\* C19: an operation dispatched on an open handle holds its own reference to
\* the native connection until it runs, whatever becomes of the handle: a
\* close() changes no task and no awaitable, the operation runs on the
\* reference it holds and yields the engine's result (or its I/O failure),
\* and no task and no awaitable ever carries ClosedHandle.
C19_CaptureBeforeDispatch ==
    /\ [][/\ (PyCallStep /\ pyLast'.op = "close") =>
                UNCHANGED <<pyTasks, pyFuts, tables>>
          /\ \A i \in 1..Len(pyTasks) :
                (InFlight(i) /\ pyTasks'[i].stage = "finished") =>
                   /\ pyTasks[i].conn = "db"
                   /\ pyTasks'[i].res \in {NativeResult(tables, pyTasks[i]),
                                           Err(ExecutionFailure)}]_vars
    /\ [](/\ \A i \in 1..Len(pyTasks) :
                /\ InFlight(i) => pyTasks[i].conn = "db"
                /\ pyTasks[i].res.kind # ClosedHandle
          /\ \A i \in 1..Len(pyFuts) : pyFuts[i].value.kind # ClosedHandle)

\* The one handle there is was closed, while open, by the last call, after an
\* operation was dispatched on it and before that operation has run: the task
\* still holds the connection.
C19_Witness ==
    /\ Len(inner) = 1
    /\ inner[1] = None
    /\ pyLast.op = "close"
    /\ pyLast.open
    /\ \E i \in 1..Len(pyTasks) : InFlight(i) /\ pyTasks[i].conn = "db"

\* C20: a call of create_table or create_empty_table checks the handle, then
\* the mode, then the payload, and reports the first failure only: ClosedHandle
\* on a closed handle whatever the mode and the payload, InvalidArgument on an
\* open handle with an invalid mode whatever the payload, ConversionFailure
\* only with an open handle and a valid mode; a call that reports an error
\* reports that one error and dispatches nothing.
C20_OrderOfSynchronousChecks ==
    [][(PyCallStep /\ pyLast'.op \in CreateOps) =>
          /\ pyLast'.outcome =
                IF ~pyLast'.open THEN ClosedHandle
                ELSE IF pyLast'.mode \notin GoodModes THEN InvalidArgument
                ELSE IF pyLast'.payload # "arrow" THEN ConversionFailure
                ELSE "Awaitable"
          /\ pyLast'.outcome # "Awaitable" =>
                /\ pyLast'.fut = 0
                /\ UNCHANGED <<pyTasks, pyFuts, inner, pyTables, tables>>]_vars

\* A create call with an invalid mode and a malformed payload on a closed
\* handle raised ClosedHandle.
C20_Witness ==
    /\ pyLast.op \in CreateOps
    /\ ~pyLast.open
    /\ pyLast.mode = "append"
    /\ pyLast.payload = "malformed"
    /\ pyLast.outcome = ClosedHandle

=============================================================================
